---- MODULE Spec2Model ----
(***************************************************************************)
(* Model of src/app.py: the /import endpoint of ol-cover-proxy.            *)
(*                                                                         *)
(* get_random_book splits its parameter into candidate identifiers and,    *)
(* up to three times, samples one with random.choice, reads its book       *)
(* record, the records of its authors and of its first work from           *)
(* OpenLibrary, and returns the aggregated dict of the first attempt that  *)
(* goes through; when the budget is used up it returns a message.          *)
(*                                                                         *)
(* Python values are tagged records.  A str is a sequence of chunks (a     *)
(* chunk is one or more characters that the model never looks inside), so  *)
(* that formatting and joining are concatenation.  A dict is a function on *)
(* Keys whose missing keys hold Absent.                                    *)
(***************************************************************************)
EXTENDS Integers, Sequences, FiniteSets, TLC

\* ------------------------------------------------------------------ bounds
\* Longest candidate list drawn in Init.
MaxIds == 2

\* Longest request parameter, in chunks, drawn in InitParams.
MaxParam == 3

\* Number of states of the random generator that are told apart.
RngStates == 2

\* ------------------------------------------------------------ Python values
Keys ==
  {"title", "covers", "authors", "description", "works", "subjects",
   "subject_places", "subject_people", "subject_times", "genres", "key",
   "name", "value"}

Absent == [t |-> "absent"]

Unbound == [t |-> "unbound"]

None == [t |-> "null"]

Str(s) == [t |-> "str", s |-> s]

Num(n) == [t |-> "int", n |-> n]

List(l) == [t |-> "list", l |-> l]

Dict(f) == [t |-> "dict", d |-> [k \in Keys |-> IF k \in DOMAIN f THEN f[k] ELSE Absent]]

EmptyDict == [t |-> "dict", d |-> [k \in Keys |-> Absent]]

Raise(e) == [t |-> "raise", exc |-> e]

IsRaise(v) == v.t = "raise"

\* bool(v): None, "", 0, [] and {} are false.
Truthy(v) ==
  CASE v.t = "null" -> FALSE
    [] v.t = "str"  -> v.s # <<>>
    [] v.t = "int"  -> v.n # 0
    [] v.t = "list" -> v.l # <<>>
    [] v.t = "dict" -> \E k \in Keys : v.d[k].t # "absent"
    [] OTHER        -> TRUE

\* v.get(k, default): only a dict has .get.
DictGet(v, k, default) ==
  IF v.t # "dict" THEN Raise("AttributeError")
  ELSE IF v.d[k].t = "absent" THEN default
  ELSE v.d[k]

\* str.format / f-string interpolation of one value.
PyFormat(v) ==
  CASE v.t = "str"  -> v.s
    [] v.t = "null" -> <<"None">>
    [] OTHER        -> <<"<repr>">>

\* The values a for loop (or set.update) takes from v, or a TypeError.
KeyOrder ==
  <<"title", "covers", "authors", "description", "works", "subjects",
    "subject_places", "subject_people", "subject_times", "genres", "key",
    "name", "value">>

RECURSIVE DictKeys(_, _)
DictKeys(v, i) ==
  IF i > Len(KeyOrder) THEN <<>>
  ELSE (IF v.d[KeyOrder[i]].t # "absent" THEN <<Str(<<KeyOrder[i]>>)>> ELSE <<>>)
       \o DictKeys(v, i + 1)

\* [exc, seq]: the exception raised ("" for none) and the values taken.
Iter(v) ==
  CASE v.t = "list"  -> [exc |-> "", seq |-> v.l]
    [] v.t = "str"   -> [exc |-> "", seq |-> [i \in 1..Len(v.s) |-> Str(<<v.s[i]>>)]]
    [] v.t = "dict"  -> [exc |-> "", seq |-> DictKeys(v, 1)]
    [] v.t = "raise" -> [exc |-> v.exc, seq |-> <<>>]
    [] OTHER         -> [exc |-> "TypeError", seq |-> <<>>]

Range(s) == {s[i] : i \in DOMAIN s}

\* ------------------------------------------------------------ URL templates
OPENLIBRARY_BOOK_URL(work_id) ==
  <<"https://openlibrary.org/books/">> \o PyFormat(work_id) \o <<".json">>

OPENLIBRARY_AUTHOR_URL(key) ==
  <<"https://openlibrary.org">> \o PyFormat(key) \o <<".json">>

COVER_URL(work_id) ==
  <<"https://covers.openlibrary.org/b/olid/">> \o PyFormat(work_id) \o <<"-L.jpg">>

WorkUrl(work_key) ==
  <<"https://openlibrary.org">> \o PyFormat(work_key) \o <<".json">>

DetailUrl(work_id) ==
  <<"https://openlibrary.org/works/">> \o PyFormat(work_id)

\* ----------------------------------------------------------- fetch_json
\* Before requests 2.27 the error of response.json was a plain ValueError.
RequestExceptionOld == {"ConnectionError", "HTTPError"}

\* The classes that line 32 catches (requests 2.27 and later, where
\* JSONDecodeError derives from RequestException).
RequestException == {"ConnectionError", "HTTPError", "JSONDecodeError"}

\* What requests.get, raise_for_status and response.json raise on a failed
\* connection, a non-2xx status and a body that is not JSON.
TransportErrors == {"ConnectionError", "HTTPError", "JSONDecodeError"}

Ok(body) == [kind |-> "ok", body |-> body, exc |-> ""]

Error(e) == [kind |-> "exc", body |-> None, exc |-> e]

\* fetch_json had line 31 lost its return.
fetch_json_no_return(raw) ==
  IF raw.kind = "ok" \/ raw.exc \in RequestException THEN None ELSE Raise(raw.exc)

fetch_json(raw) ==
  IF raw.kind = "ok" THEN raw.body
  ELSE IF raw.exc \in RequestException THEN None
  ELSE Raise(raw.exc)

\* ----------------------------------------------------------- pure functions
\* get_cover_image had it formatted the first cover id.
get_cover_image_of_cover(work_id, covers) ==
  IF Truthy(covers)
    THEN Str(COVER_URL(IF covers.t = "list" THEN covers.l[1] ELSE work_id))
    ELSE None

get_cover_image(work_id, covers) ==
  IF Truthy(covers) THEN Str(COVER_URL(work_id)) ELSE None

\* parse_description without lines 112-113.
parse_description_plain(description_data) ==
  IF Truthy(description_data) THEN description_data ELSE Str(<<>>)

parse_description(description_data) ==
  IF description_data.t = "dict"
    THEN DictGet(description_data, "value", Str(<<>>))
    ELSE IF Truthy(description_data) THEN description_data ELSE Str(<<>>)

\* tags.update(rec.get(key, [])) for each key of keys, in order.  acc is
\* [exc, set]: the exception raised so far ("" for none) and the set built.
RECURSIVE UpdateTags(_, _, _)
UpdateTags(acc, rec, keys) ==
  IF acc.exc # "" \/ keys = <<>> THEN acc
  ELSE LET it == Iter(DictGet(rec, Head(keys), List(<<>>)))
       IN IF it.exc # "" THEN [exc |-> it.exc, set |-> {}]
          ELSE IF \E i \in DOMAIN it.seq : it.seq[i].t \in {"list", "dict"}
            THEN [exc |-> "TypeError", set |-> {}]
          ELSE UpdateTags([exc |-> "", set |-> acc.set \cup Range(it.seq)], rec, Tail(keys))

\* The keys of line 130 without the last.
BookTagKeysShort == <<"subjects", "subject_places", "subject_people">>

BookTagKeys == <<"subjects", "subject_places", "subject_people", "subject_times">>

WorkTagKeys ==
  <<"subjects", "subject_places", "subject_people", "subject_times", "genres">>

\* ', '.join(tag_list)
RECURSIVE Join(_)
Join(tag_list) ==
  IF tag_list = <<>> THEN <<>>
  ELSE IF Len(tag_list) = 1 THEN tag_list[1].s
  ELSE tag_list[1].s \o <<", ">> \o Join(Tail(tag_list))

\* list(tags): a set comes out in any order.
Orderings(S) ==
  {p \in [1..Cardinality(S) -> S] : \A i, j \in DOMAIN p : i # j => p[i] # p[j]}

\* The set of values extract_tags can return (one per iteration order of the
\* set), or {Raise(..)}.
extract_tags(book_data, work_data) ==
  LET t1 == UpdateTags([exc |-> "", set |-> {}], book_data, BookTagKeys)
      t2 == IF ~Truthy(work_data) THEN t1 ELSE UpdateTags(t1, work_data, WorkTagKeys)
  IN IF t2.exc # "" THEN {Raise(t2.exc)}
     ELSE IF \E x \in t2.set : x.t # "str" THEN {Raise("TypeError")}
     ELSE {Str(Join(p)) : p \in Orderings(t2.set)}

\* A split that leaves the empty tokens out, as work_ids.split() does for
\* blanks.
RECURSIVE PySplitNoEmpty(_, _)
PySplitNoEmpty(s, cur) ==
  IF s = <<>> THEN (IF cur = <<>> THEN <<>> ELSE <<Str(cur)>>)
  ELSE IF Head(s) = ","
    THEN (IF cur = <<>> THEN <<>> ELSE <<Str(cur)>>) \o PySplitNoEmpty(Tail(s), <<>>)
  ELSE PySplitNoEmpty(Tail(s), Append(cur, Head(s)))

\* work_ids.split(","): the chunk "," separates; always at least one token.
RECURSIVE PySplit(_, _)
PySplit(s, cur) ==
  IF s = <<>> THEN <<Str(cur)>>
  ELSE IF Head(s) = "," THEN <<Str(cur)>> \o PySplit(Tail(s), <<>>)
  ELSE PySplit(Tail(s), Append(cur, Head(s)))

\* random.choice(seq) with the generator in state g.
RandomChoice(seq, g) == seq[(g % Len(seq)) + 1]

MaxAttempts == 3

Message ==
  [t |-> "message", message |-> <<"Add valid open library ids in your plugin settings">>]

\* ------------------------------------------------------------ the catalog
\* The remote service as requests.get sees it.  catalog.book gives, for each
\* identifier, the body of its book record (or Unavailable); catalog.author
\* and catalog.work give, for each key, the replies a read of it may get.
Req == {1, 2}

OL1W == <<"OL1W">>

OL2W == <<"OL2W">>

Tokens == {OL1W, OL2W}

A1 == <<"/authors/A1">>

A2 == <<"/authors/A2">>

A3 == <<"/authors/A3">>

AuthorKeys == {A1, A2, A3}

W1 == <<"/works/W1">>

W2 == <<"/works/W2">>

W3 == <<"/works/W3">>

WorkKeys == {W1, W2, W3}

Unavailable == [t |-> "unavailable"]

NameOf(k) ==
  CASE k = A1 -> <<"Frank Herbert">>
    [] k = A2 -> <<"N2">>
    [] OTHER  -> <<"N3">>

AuthorKinds == {"fail", "named", "noname", "empty", "nondict"}

AuthorReplies(k, kind) ==
  CASE kind = "fail"   -> {Error(e) : e \in TransportErrors}
    [] kind = "named"  -> {Ok(Dict([name |-> Str(NameOf(k)), key |-> Str(k)]))}
    [] kind = "noname" -> {Ok(Dict([key |-> Str(k)]))}
    [] kind = "empty"  -> {Ok(EmptyDict)}
    [] OTHER           -> {Ok(List(<<Num(1)>>))}

BookRoute(t) == <<"https://openlibrary.org/books/">> \o t \o <<".json">>

ResourceRoute(k) == <<"https://openlibrary.org">> \o k \o <<".json">>

VARIABLES catalog, rng, work_ids, pc, ids, attempts, work_id, book_data,
          covers, cover_image, authors_list, author_names, author_i,
          description, work_data, tags, url, response, samples, trace,
          nreads, outcomes

vars ==
  <<catalog, rng, work_ids, pc, ids, attempts, work_id, book_data, covers,
    cover_image, authors_list, author_names, author_i, description,
    work_data, tags, url, response, samples, trace, nreads, outcomes>>

\* The raw outcomes requests.get(url) can have.
Remote(u) ==
  IF \E t \in Tokens : u = BookRoute(t)
    THEN LET t == CHOOSE t \in Tokens : u = BookRoute(t)
         IN IF catalog.book[t].t = "unavailable"
              THEN {Error(e) : e \in TransportErrors}
              ELSE {Ok(catalog.book[t])}
  ELSE IF \E k \in AuthorKeys : u = ResourceRoute(k)
    THEN LET k == CHOOSE k \in AuthorKeys : u = ResourceRoute(k)
         IN UNION {AuthorReplies(k, kind) : kind \in catalog.author[k]}
  ELSE IF \E k \in WorkKeys : u = ResourceRoute(k)
    THEN LET k == CHOOSE k \in WorkKeys : u = ResourceRoute(k)
         IN catalog.work[k]
  ELSE {Error("HTTPError")}

\* ------------------------------------------------------------ get_random_book
Entry(kind, u, res) == [kind |-> kind, url |-> u, res |-> res]

\* book_data.get("authors", []) as the for loop of fetch_author_names sees it.
AuthorsOf(book) == Iter(DictGet(book, "authors", List(<<>>)))

\* works[-1]: the last work reference in place of the first.
FirstFromEnd(works) ==
  CASE works.t = "list" -> works.l[Len(works.l)]
    [] works.t = "str"  -> Str(<<works.s[Len(works.s)]>>)
    [] works.t = "dict" -> Raise("KeyError")
    [] OTHER            -> Raise("TypeError")

\* works[0]
First(works) ==
  CASE works.t = "list" -> works.l[1]
    [] works.t = "str"  -> Str(<<works.s[1]>>)
    [] works.t = "dict" -> Raise("KeyError")
    [] OTHER            -> Raise("TypeError")

\* Lines 94-97 of fetch_work_data_from_book: the key to read, None when there
\* is nothing to read, or the exception raised.
WorkKeyOf(book) ==
  LET works == DictGet(book, "works", List(<<>>))
  IN IF IsRaise(works) THEN works
     ELSE IF ~Truthy(works) THEN None
     ELSE IF IsRaise(First(works)) THEN First(works)
     ELSE DictGet(First(works), "key", None)

\* The dict of lines 180-189 had it named the first candidate.
ResultFirstId(r, d, tg) ==
  [t |-> "result",
   work_id |-> ids[r][1],
   title |-> DictGet(book_data[r], "title", None),
   authors |-> authors_list[r],
   description |-> d,
   covers |-> covers[r],
   cover_image |-> cover_image[r],
   tags |-> tg,
   url |-> Str(DetailUrl(work_id[r]))]

Result(r, d, tg) ==
  [t |-> "result",
   work_id |-> work_id[r],
   title |-> DictGet(book_data[r], "title", None),
   authors |-> authors_list[r],
   description |-> d,
   covers |-> covers[r],
   cover_image |-> cover_image[r],
   tags |-> tg,
   url |-> Str(DetailUrl(work_id[r]))]

\* Lines 157-158.
Start(r) ==
  /\ pc[r] = "start"
  /\ ids' = [ids EXCEPT ![r] = PySplit(work_ids[r], <<>>)]
  /\ attempts' = [attempts EXCEPT ![r] = MaxAttempts]
  /\ pc' = [pc EXCEPT ![r] = "loop"]
  /\ UNCHANGED <<catalog, rng, work_ids, work_id, book_data, covers,
                 cover_image, authors_list, author_names, author_i,
                 description, work_data, tags, url, response, samples,
                 trace, nreads, outcomes>>

\* Lines 160-161: the loop test and random.choice, which reads and advances
\* the generator shared by the whole process.
Sample(r) ==
  /\ pc[r] = "loop"
  /\ attempts[r] > 0
  /\ IF ids[r] = <<>>
       THEN /\ response' = [response EXCEPT ![r] = Raise("IndexError")]
            /\ pc' = [pc EXCEPT ![r] = "done"]
            /\ UNCHANGED <<rng, work_id, samples, trace>>
       ELSE /\ \E g \in 0..(RngStates - 1) : rng' = g
            /\ work_id' = [work_id EXCEPT ![r] = RandomChoice(ids[r], rng)]
            /\ samples' = [samples EXCEPT ![r] = Append(@, RandomChoice(ids[r], rng))]
            /\ trace' = [trace EXCEPT ![r] = <<>>]
            /\ pc' = [pc EXCEPT ![r] = "fetch_book"]
            /\ UNCHANGED response
  /\ UNCHANGED <<catalog, work_ids, ids, attempts, book_data, covers,
                 cover_image, authors_list, author_names, author_i,
                 description, work_data, tags, url, nreads, outcomes>>

\* Lines 160, 196: the budget is used up.
Exhausted(r) ==
  /\ pc[r] = "loop"
  /\ ~(attempts[r] > 0)
  /\ response' = [response EXCEPT ![r] = Message]
  /\ pc' = [pc EXCEPT ![r] = "done"]
  /\ UNCHANGED <<catalog, rng, work_ids, ids, attempts, work_id, book_data,
                 covers, cover_image, authors_list, author_names, author_i,
                 description, work_data, tags, url, samples, trace, nreads,
                 outcomes>>

\* Line 162: fetch_book_data, outside the try block.
FetchBook(r) ==
  /\ pc[r] = "fetch_book"
  /\ \E raw \in Remote(OPENLIBRARY_BOOK_URL(work_id[r])) :
       LET res == fetch_json(raw)
       IN IF IsRaise(res)
            THEN /\ response' = [response EXCEPT ![r] = res]
                 /\ pc' = [pc EXCEPT ![r] = "done"]
                 /\ UNCHANGED <<book_data, trace, nreads>>
            ELSE /\ book_data' = [book_data EXCEPT ![r] = res]
                 /\ trace' = [trace EXCEPT ![r] =
                      Append(@, Entry("book", OPENLIBRARY_BOOK_URL(work_id[r]), res))]
                 /\ nreads' = [nreads EXCEPT ![r].book = @ + 1]
                 /\ pc' = [pc EXCEPT ![r] = "if_book"]
                 /\ UNCHANGED response
  /\ UNCHANGED <<catalog, rng, work_ids, ids, attempts, work_id, covers,
                 cover_image, authors_list, author_names, author_i,
                 description, work_data, tags, url, samples, outcomes>>

\* Line 194 had it also taken the failed identifier off the list.
BookUnavailableDrop(r) ==
  /\ pc[r] = "if_book"
  /\ ~Truthy(book_data[r])
  /\ ids' = [ids EXCEPT ![r] = SelectSeq(@, LAMBDA x : x # work_id[r])]
  /\ attempts' = [attempts EXCEPT ![r] = @ - 1]
  /\ outcomes' = [outcomes EXCEPT ![r] = Append(@, "none")]
  /\ pc' = [pc EXCEPT ![r] = "loop"]
  /\ UNCHANGED <<catalog, rng, work_ids, work_id, book_data, covers,
                 cover_image, authors_list, author_names, author_i,
                 description, work_data, tags, url, response, samples,
                 trace, nreads>>

\* Line 194 had it taken two attempts.
BookUnavailableTwice(r) ==
  /\ pc[r] = "if_book"
  /\ ~Truthy(book_data[r])
  /\ attempts' = [attempts EXCEPT ![r] = @ - 2]
  /\ outcomes' = [outcomes EXCEPT ![r] = Append(@, "none")]
  /\ pc' = [pc EXCEPT ![r] = "loop"]
  /\ UNCHANGED <<catalog, rng, work_ids, ids, work_id, book_data, covers,
                 cover_image, authors_list, author_names, author_i,
                 description, work_data, tags, url, response, samples,
                 trace, nreads>>

\* Lines 164, 194: no book record, the attempt is spent.
BookUnavailable(r) ==
  /\ pc[r] = "if_book"
  /\ ~Truthy(book_data[r])
  /\ attempts' = [attempts EXCEPT ![r] = @ - 1]
  /\ outcomes' = [outcomes EXCEPT ![r] = Append(@, "none")]
  /\ pc' = [pc EXCEPT ![r] = "loop"]
  /\ UNCHANGED <<catalog, rng, work_ids, ids, work_id, book_data, covers,
                 cover_image, authors_list, author_names, author_i,
                 description, work_data, tags, url, response, samples,
                 trace, nreads>>

\* Lines 166-167 had they run only while cover_image is not yet bound.
ProcessBookOnce(r) ==
  /\ pc[r] = "if_book"
  /\ Truthy(book_data[r])
  /\ LET c == DictGet(book_data[r], "covers", List(<<>>))
     IN IF IsRaise(c)
          THEN /\ pc' = [pc EXCEPT ![r] = "except"]
               /\ UNCHANGED <<covers, cover_image, author_names, author_i>>
          ELSE /\ covers' = [covers EXCEPT ![r] = IF @ = Unbound THEN c ELSE @]
               /\ cover_image' = [cover_image EXCEPT ![r] =
                    IF @ = Unbound THEN get_cover_image(work_id[r], c) ELSE @]
               /\ IF AuthorsOf(book_data[r]).exc # ""
                    THEN /\ pc' = [pc EXCEPT ![r] = "except"]
                         /\ UNCHANGED <<author_names, author_i>>
                    ELSE /\ author_names' = [author_names EXCEPT ![r] = <<>>]
                         /\ author_i' = [author_i EXCEPT ![r] = 1]
                         /\ pc' = [pc EXCEPT ![r] = "authors"]
  /\ UNCHANGED <<catalog, rng, work_ids, ids, attempts, work_id, book_data,
                 authors_list, description, work_data, tags, url, response,
                 samples, trace, nreads, outcomes>>

\* Lines 164-168: covers, cover_image and the call of fetch_author_names up
\* to the head of its loop (lines 60-61).
ProcessBook(r) ==
  /\ pc[r] = "if_book"
  /\ Truthy(book_data[r])
  /\ LET c == DictGet(book_data[r], "covers", List(<<>>))
     IN IF IsRaise(c)
          THEN /\ pc' = [pc EXCEPT ![r] = "except"]
               /\ UNCHANGED <<covers, cover_image, author_names, author_i>>
          ELSE /\ covers' = [covers EXCEPT ![r] = c]
               /\ cover_image' = [cover_image EXCEPT ![r] = get_cover_image(work_id[r], c)]
               /\ IF AuthorsOf(book_data[r]).exc # ""
                    THEN /\ pc' = [pc EXCEPT ![r] = "except"]
                         /\ UNCHANGED <<author_names, author_i>>
                    ELSE /\ author_names' = [author_names EXCEPT ![r] = <<>>]
                         /\ author_i' = [author_i EXCEPT ![r] = 1]
                         /\ pc' = [pc EXCEPT ![r] = "authors"]
  /\ UNCHANGED <<catalog, rng, work_ids, ids, attempts, work_id, book_data,
                 authors_list, description, work_data, tags, url, response,
                 samples, trace, nreads, outcomes>>

\* Lines 61-66: one turn of the loop of fetch_author_names.  The outcomes
\* are [read, exc, names]: the read made (none or one), whether the turn
\* raised, and author_names after it.
AuthorTurn(r) ==
  LET author     == AuthorsOf(book_data[r]).seq[author_i[r]]
      author_key == DictGet(author, "key", None)
      u          == OPENLIBRARY_AUTHOR_URL(author_key)
  IN IF IsRaise(author_key)
       THEN {[read |-> <<>>, exc |-> TRUE, names |-> <<>>]}
     ELSE IF ~Truthy(author_key)
       THEN {[read |-> <<>>, exc |-> FALSE, names |-> author_names[r]]}
     ELSE {LET author_data == fetch_json(raw)
           IN IF IsRaise(author_data)
                THEN [read |-> <<>>, exc |-> TRUE, names |-> <<>>]
              ELSE IF ~Truthy(author_data)
                THEN [read |-> <<Entry("author", u, author_data)>>, exc |-> FALSE,
                      names |-> author_names[r]]
              ELSE IF IsRaise(DictGet(author_data, "name", None))
                THEN [read |-> <<Entry("author", u, author_data)>>, exc |-> TRUE,
                      names |-> <<>>]
              ELSE [read |-> <<Entry("author", u, author_data)>>, exc |-> FALSE,
                    names |-> Append(author_names[r], DictGet(author_data, "name", None))]
           : raw \in Remote(u)}

FetchAuthor(r) ==
  /\ pc[r] = "authors"
  /\ author_i[r] <= Len(AuthorsOf(book_data[r]).seq)
  /\ \E out \in AuthorTurn(r) :
       /\ trace' = [trace EXCEPT ![r] = @ \o out.read]
       /\ nreads' = [nreads EXCEPT ![r].author = @ + Len(out.read)]
       /\ IF out.exc
            THEN /\ pc' = [pc EXCEPT ![r] = "except"]
                 /\ author_names' = [author_names EXCEPT ![r] = <<>>]
                 /\ author_i' = [author_i EXCEPT ![r] = 0]
            ELSE /\ author_names' = [author_names EXCEPT ![r] = out.names]
                 /\ author_i' = [author_i EXCEPT ![r] = @ + 1]
                 /\ UNCHANGED pc
  /\ UNCHANGED <<catalog, rng, work_ids, ids, attempts, work_id, book_data,
                 covers, cover_image, authors_list, description, work_data,
                 tags, url, response, samples, outcomes>>

\* Lines 67, 168, 170 and 173 with lines 94-97 and 99: fetch_author_names
\* returns, the description is parsed and the work reference is looked up.
AuthorsDone(r) ==
  /\ pc[r] = "authors"
  /\ author_i[r] > Len(AuthorsOf(book_data[r]).seq)
  /\ authors_list' = [authors_list EXCEPT ![r] = List(author_names[r])]
  /\ author_names' = [author_names EXCEPT ![r] = <<>>]
  /\ author_i' = [author_i EXCEPT ![r] = 0]
  /\ description' = [description EXCEPT ![r] =
       parse_description(DictGet(book_data[r], "description", None))]
  /\ LET work_key == WorkKeyOf(book_data[r])
     IN IF IsRaise(work_key)
          THEN /\ pc' = [pc EXCEPT ![r] = "except"]
               /\ UNCHANGED work_data
        ELSE IF Truthy(work_key)
          THEN /\ pc' = [pc EXCEPT ![r] = "fetch_work"]
               /\ UNCHANGED work_data
        ELSE /\ work_data' = [work_data EXCEPT ![r] = None]
             /\ pc' = [pc EXCEPT ![r] = "finish"]
  /\ UNCHANGED <<catalog, rng, work_ids, ids, attempts, work_id, book_data,
                 covers, cover_image, tags, url, response, samples, trace,
                 nreads, outcomes>>

\* Line 98 had a failed read of the work raised instead of giving None.
FetchWorkRequired(r) ==
  /\ pc[r] = "fetch_work"
  /\ \E raw \in Remote(WorkUrl(WorkKeyOf(book_data[r]))) :
       LET res == fetch_json(raw)
       IN IF IsRaise(res)
            THEN /\ pc' = [pc EXCEPT ![r] = "except"]
                 /\ UNCHANGED <<work_data, trace, nreads>>
            ELSE /\ work_data' = [work_data EXCEPT ![r] = res]
                 /\ trace' = [trace EXCEPT ![r] =
                      Append(@, Entry("work", WorkUrl(WorkKeyOf(book_data[r])), res))]
                 /\ nreads' = [nreads EXCEPT ![r].work = @ + 1]
                 /\ pc' = [pc EXCEPT ![r] = IF res = None THEN "except" ELSE "finish"]
  /\ UNCHANGED <<catalog, rng, work_ids, ids, attempts, work_id, book_data,
                 covers, cover_image, authors_list, author_names, author_i,
                 description, tags, url, response, samples, outcomes>>

\* Line 98 (called from line 173): the read of the first work reference.
FetchWork(r) ==
  /\ pc[r] = "fetch_work"
  /\ \E raw \in Remote(WorkUrl(WorkKeyOf(book_data[r]))) :
       LET res == fetch_json(raw)
       IN IF IsRaise(res)
            THEN /\ pc' = [pc EXCEPT ![r] = "except"]
                 /\ UNCHANGED <<work_data, trace, nreads>>
            ELSE /\ work_data' = [work_data EXCEPT ![r] = res]
                 /\ trace' = [trace EXCEPT ![r] =
                      Append(@, Entry("work", WorkUrl(WorkKeyOf(book_data[r])), res))]
                 /\ nreads' = [nreads EXCEPT ![r].work = @ + 1]
                 /\ pc' = [pc EXCEPT ![r] = "finish"]
  /\ UNCHANGED <<catalog, rng, work_ids, ids, attempts, work_id, book_data,
                 covers, cover_image, authors_list, author_names, author_i,
                 description, tags, url, response, samples, outcomes>>

\* Lines 174-189, going to target once the dict is built.
FinishTo(r, target) ==
  /\ pc[r] = "finish"
  /\ LET d == IF ~Truthy(description[r]) /\ Truthy(work_data[r])
                THEN parse_description(DictGet(work_data[r], "description", None))
                ELSE description[r]
     IN IF IsRaise(d)
          THEN /\ pc' = [pc EXCEPT ![r] = "except"]
               /\ UNCHANGED <<description, tags, url, response>>
          ELSE /\ description' = [description EXCEPT ![r] = d]
               /\ \E tg \in extract_tags(book_data[r], work_data[r]) :
                    IF IsRaise(tg)
                      THEN /\ pc' = [pc EXCEPT ![r] = "except"]
                           /\ UNCHANGED <<tags, url, response>>
                      ELSE /\ tags' = [tags EXCEPT ![r] = tg]
                           /\ url' = [url EXCEPT ![r] = Str(DetailUrl(work_id[r]))]
                           /\ response' = [response EXCEPT ![r] = Result(r, d, tg)]
                           /\ pc' = [pc EXCEPT ![r] = target]
  /\ UNCHANGED <<catalog, rng, work_ids, ids, attempts, work_id, book_data,
                 covers, cover_image, authors_list, author_names, author_i,
                 work_data, samples, trace, nreads, outcomes>>

\* Lines 174-189 had the loop gone on after building the dict.
FinishNoReturn(r) == FinishTo(r, "loop")

\* Lines 174-189: the description fallback, the tags, the url and the return.
Finish(r) == FinishTo(r, "done")

\* Lines 190-193 had attempts been a module-level variable.
ExceptShared(r) ==
  /\ pc[r] = "except"
  /\ attempts' = [q \in Req |-> attempts[q] - 1]
  /\ outcomes' = [outcomes EXCEPT ![r] = Append(@, "error")]
  /\ pc' = [pc EXCEPT ![r] = "loop"]
  /\ UNCHANGED <<catalog, rng, work_ids, ids, work_id, book_data, covers,
                 cover_image, authors_list, author_names, author_i,
                 description, work_data, tags, url, response, samples,
                 trace, nreads>>

\* Lines 190-193 without line 192: the caught error costs nothing.
ExceptNoDecrement(r) ==
  /\ pc[r] = "except"
  /\ outcomes' = [outcomes EXCEPT ![r] = Append(@, "error")]
  /\ pc' = [pc EXCEPT ![r] = "loop"]
  /\ UNCHANGED <<catalog, rng, work_ids, ids, attempts, work_id, book_data,
                 covers, cover_image, authors_list, author_names, author_i,
                 description, work_data, tags, url, response, samples,
                 trace, nreads>>

\* Lines 190-193 had line 192 taken two attempts.
ExceptTwice(r) ==
  /\ pc[r] = "except"
  /\ attempts' = [attempts EXCEPT ![r] = @ - 2]
  /\ outcomes' = [outcomes EXCEPT ![r] = Append(@, "error")]
  /\ pc' = [pc EXCEPT ![r] = "loop"]
  /\ UNCHANGED <<catalog, rng, work_ids, ids, work_id, book_data, covers,
                 cover_image, authors_list, author_names, author_i,
                 description, work_data, tags, url, response, samples,
                 trace, nreads>>

\* Lines 190-193: except Exception, the attempt is spent.
Except(r) ==
  /\ pc[r] = "except"
  /\ attempts' = [attempts EXCEPT ![r] = @ - 1]
  /\ outcomes' = [outcomes EXCEPT ![r] = Append(@, "error")]
  /\ pc' = [pc EXCEPT ![r] = "loop"]
  /\ UNCHANGED <<catalog, rng, work_ids, ids, work_id, book_data, covers,
                 cover_image, authors_list, author_names, author_i,
                 description, work_data, tags, url, response, samples,
                 trace, nreads>>

Step(r) ==
  \/ Start(r)
  \/ Sample(r)
  \/ Exhausted(r)
  \/ FetchBook(r)
  \/ BookUnavailable(r)
  \/ ProcessBook(r)
  \/ FetchAuthor(r)
  \/ AuthorsDone(r)
  \/ FetchWork(r)
  \/ Finish(r)
  \/ Except(r)

\* ------------------------------------------------------------ catalogs
Ref(k) == Dict([key |-> Str(k)])

\* The book of the end-to-end scenario.
Dune ==
  Dict([title |-> Str(<<"Dune">>),
        authors |-> List(<<Ref(A1)>>),
        covers |-> List(<<Num(1)>>),
        description |-> Str(<<"A desert planet novel">>),
        subjects |-> List(<<Str(<<"Science fiction">>)>>)])

\* Three authors, two work references, no description of its own, no cover.
Saga ==
  Dict([authors |-> List(<<Ref(A1), Ref(A2), Ref(A3)>>),
        description |-> Dict([value |-> Str(<<>>)]),
        works |-> List(<<Ref(W1), Ref(W2)>>),
        subjects |-> List(<<Str(<<"a">>), Str(<<"b">>)>>),
        subject_places |-> List(<<Str(<<"b">>)>>)])

\* References without a key.
Bare ==
  Dict([title |-> Str(<<"T">>),
        authors |-> List(<<EmptyDict>>),
        works |-> List(<<EmptyDict>>),
        covers |-> List(<<>>)])

\* Shape failures: not a dict, authors null, a subject that is not a str.
NotADict == List(<<Num(1)>>)

NullAuthors == Dict([title |-> Str(<<"T">>), authors |-> None])

BadTags ==
  Dict([title |-> Str(<<"T">>),
        covers |-> List(<<Num(1)>>),
        subjects |-> List(<<Num(7)>>)])

\* No author, one work reference, the description left to the work.
Tome ==
  Dict([title |-> Str(<<"T">>),
        works |-> List(<<Ref(W3)>>),
        subjects |-> List(<<Str(<<"a">>)>>)])

BookEntries ==
  {Unavailable, EmptyDict, NotADict, NullAuthors, BadTags, Bare, Dune, Saga, Tome}

WorkRecord ==
  Dict([description |-> Dict([value |-> Str(<<"W">>)]),
        subjects |-> List(<<Str(<<"b">>)>>),
        genres |-> List(<<Str(<<"g">>)>>)])

OtherWork == Dict([description |-> Str(<<"W2">>), genres |-> List(<<Str(<<"h">>)>>)])

Failures == {Error(e) : e \in TransportErrors}

\* A1 may answer in every way; A2 and A3 have a record and may fail.
AuthorCatalog ==
  [k \in AuthorKeys |-> IF k = A1 THEN AuthorKinds ELSE {"fail", "named"}]

\* W3 may answer in every way; W1 and W2 have a record, and W1 may fail.
WorkCatalog ==
  [k \in WorkKeys |->
     CASE k = W1 -> Failures \cup {Ok(WorkRecord)}
       [] k = W2 -> {Ok(OtherWork)}
       [] OTHER  -> Failures \cup {Ok(WorkRecord), Ok(EmptyDict), Ok(List(<<Num(1)>>))}]

\* OL1W is any entry; OL2W is missing, a good book, or a book that fails late.
Worlds ==
  {[book |-> b, author |-> AuthorCatalog, work |-> WorkCatalog] :
     b \in {f \in [Tokens -> BookEntries] : f[OL2W] \in {Unavailable, Dune, BadTags}}}

CandidateLists == UNION {[1..n -> Tokens] : n \in 1..MaxIds}

\* The request parameter that names the candidates of l.
RECURSIVE JoinComma(_)
JoinComma(l) ==
  IF Len(l) = 1 THEN l[1] ELSE l[1] \o <<",">> \o JoinComma(Tail(l))

\* ------------------------------------------------------------ specifications
\* The state when the requests of live arrive with parameters p.
Arrive(live, p) ==
  /\ work_ids = p
  /\ pc = [r \in Req |-> IF r \in live THEN "start" ELSE "off"]
  /\ ids = [r \in Req |-> <<>>]
  /\ attempts = [r \in Req |-> 0]
  /\ work_id = [r \in Req |-> Unbound]
  /\ book_data = [r \in Req |-> Unbound]
  /\ covers = [r \in Req |-> Unbound]
  /\ cover_image = [r \in Req |-> Unbound]
  /\ authors_list = [r \in Req |-> Unbound]
  /\ author_names = [r \in Req |-> <<>>]
  /\ author_i = [r \in Req |-> 0]
  /\ description = [r \in Req |-> Unbound]
  /\ work_data = [r \in Req |-> Unbound]
  /\ tags = [r \in Req |-> Unbound]
  /\ url = [r \in Req |-> Unbound]
  /\ response = [r \in Req |-> Unbound]
  /\ samples = [r \in Req |-> <<>>]
  /\ trace = [r \in Req |-> <<>>]
  /\ nreads = [r \in Req |-> [book |-> 0, author |-> 0, work |-> 0]]
  /\ outcomes = [r \in Req |-> <<>>]

\* One request, every catalog over BookEntries.
Init ==
  /\ catalog \in Worlds
  /\ rng \in 0..(RngStates - 1)
  /\ \E l \in CandidateLists :
       Arrive({1}, [r \in Req |-> IF r = 1 THEN JoinComma(l) ELSE <<>>])

Next == Step(1)

Spec == Init /\ [][Next]_vars

\* The request when every step that can be taken is taken in the end: the
\* interpreter goes on running the handler, and every requests.get that was
\* sent comes back, with a body or with a failure.
\* The catalogs kept for it: the first identifier has no record, a record
\* that raises, or the record whose work answers in every way.
LiveWorlds == {w \in Worlds : w.book[OL1W] \in {Unavailable, NullAuthors, Tome}}

InitLive ==
  /\ catalog \in LiveWorlds
  /\ rng \in 0..(RngStates - 1)
  /\ \E l \in CandidateLists :
       Arrive({1}, [r \in Req |-> IF r = 1 THEN JoinComma(l) ELSE <<>>])

SpecLive == InitLive /\ [][Next]_vars /\ WF_vars(Next)

\* One request for a single candidate, over catalogs that run through
\* the shapes of the fields of the book record and of the work record.
Opt(k, vs) == {<<>>} \cup {[x \in {k} |-> v] : v \in vs}

\* The union of records with disjoint fields.
Merge(f, g) == [k \in DOMAIN f \cup DOMAIN g |-> IF k \in DOMAIN f THEN f[k] ELSE g[k]]

TagA == Str(<<"a">>)

TagB == Str(<<"b">>)

TagC == Str(<<"c">>)

\* A subject that holds the separator of line 141.
TagAB == Str(<<"a", ", ", "b">>)

Descriptions ==
  {None, Str(<<>>), Str(<<"B">>), Dict([value |-> Str(<<"B">>)]),
   Dict([value |-> Str(<<>>)]), EmptyDict}

WorkDescriptions ==
  {None, Str(<<>>), Str(<<"W">>), Dict([value |-> Str(<<"W">>)]),
   Dict([value |-> Str(<<>>)]), EmptyDict}

CoverLists == {List(<<>>), List(<<Num(123)>>), List(<<Num(456), Num(123)>>)}

\* Books that differ in description, covers and works.
DescriptionBooks ==
  {Dict(Merge([title |-> Str(<<"T">>)], Merge(d, Merge(c, w)))) :
     d \in Opt("description", Descriptions),
     c \in Opt("covers", CoverLists),
     w \in Opt("works", {List(<<Ref(W3)>>)})}

DescriptionWorks ==
  {Dict(Merge([key |-> Str(W3)], d)) : d \in Opt("description", WorkDescriptions)}

\* Books that differ in their subjects.
TagBooks ==
  {Dict(Merge([title |-> Str(<<"T">>)], Merge(Merge(s1, s2), Merge(Merge(s3, s4), w)))) :
     s1 \in Opt("subjects", {List(<<>>), List(<<TagA>>), List(<<TagAB>>), List(<<TagA, TagB>>)}),
     s2 \in Opt("subject_places", {List(<<TagB>>)}),
     s3 \in Opt("subject_people", {List(<<TagB>>)}),
     s4 \in Opt("subject_times", {List(<<TagB>>)}),
     w \in Opt("works", {List(<<Ref(W3)>>)})}

TagWorks ==
  {Dict(Merge([key |-> Str(W3)], Merge(Merge(s1, s2), Merge(Merge(s3, s4), g)))) :
     s1 \in Opt("subjects", {List(<<TagC>>)}),
     s2 \in Opt("subject_places", {List(<<TagC>>)}),
     s3 \in Opt("subject_people", {List(<<TagC>>)}),
     s4 \in Opt("subject_times", {List(<<TagC>>)}),
     g \in Opt("genres", {List(<<TagC>>)})}

\* The catalogs in which only the identifier id has a book record.
FieldWorlds(id) ==
  {[book |-> [t \in Tokens |-> IF t = id THEN b ELSE Unavailable],
    author |-> AuthorCatalog,
    work |-> [WorkCatalog EXCEPT ![W3] = Failures \cup {Ok(EmptyDict)} \cup {Ok(w) : w \in DescriptionWorks}]] :
     b \in DescriptionBooks}
  \cup
  {[book |-> [t \in Tokens |-> IF t = id THEN b ELSE Unavailable],
    author |-> AuthorCatalog,
    work |-> [WorkCatalog EXCEPT ![W3] = Failures \cup {Ok(EmptyDict)} \cup {Ok(w) : w \in TagWorks}]] :
     b \in TagBooks}
  \cup
  {[book |-> [t \in Tokens |-> IF t = id THEN b ELSE Unavailable],
    author |-> AuthorCatalog,
    work |-> WorkCatalog] :
     b \in BookEntries}

InitFields ==
  /\ rng \in 0..(RngStates - 1)
  /\ \E id \in Tokens :
       /\ catalog \in FieldWorlds(id)
       /\ Arrive({1}, [r \in Req |-> IF r = 1 THEN id ELSE <<>>])

SpecFields == InitFields /\ [][Next]_vars

\* Two requests in one process, their steps interleaved, over two small
\* catalogs.
ConcWorlds ==
  {[book |-> [t \in Tokens |-> IF t = OL1W THEN Unavailable ELSE Dune],
    author |-> [k \in AuthorKeys |-> {"fail", "named"}],
    work |-> WorkCatalog],
   [book |-> [t \in Tokens |-> IF t = OL1W THEN Tome ELSE NullAuthors],
    author |-> [k \in AuthorKeys |-> {"fail", "named"}],
    work |-> [WorkCatalog EXCEPT ![W3] = {Ok(WorkRecord), Ok(List(<<Num(1)>>))}]]}

ConcLists == {<<OL2W>>, <<OL1W, OL2W>>}

InitConc ==
  /\ catalog \in ConcWorlds
  /\ rng \in 0..(RngStates - 1)
  /\ \E l \in [Req -> ConcLists] : Arrive(Req, [r \in Req |-> JoinComma(l[r])])

NextConc == \E r \in Req : Step(r)

SpecConc == InitConc /\ [][NextConc]_vars

\* One request whose parameter is any string of at most MaxParam chunks,
\* each an identifier or a comma: the empty string, empty tokens and
\* identifiers the service does not know are among them.  The catalogs are
\* the two of ConcWorlds.
ParamChunks == {"OL1W", "OL2W", ","}

Params == UNION {[1..n -> ParamChunks] : n \in 0..MaxParam}

InitParams ==
  /\ catalog \in ConcWorlds
  /\ rng \in 0..(RngStates - 1)
  /\ \E p \in Params : Arrive({1}, [r \in Req |-> IF r = 1 THEN p ELSE <<>>])

SpecParams == InitParams /\ [][Next]_vars

\* ------------------------------------------------------------ properties
IsResult(v) == v.t = "result"

Last(s) == s[Len(s)]

\* The catalog's entry for an identifier.
BookOf(id) == IF id.s \in Tokens THEN catalog.book[id.s] ELSE Unavailable

\* The identifier has a book record that line 164 lets through.
HasRecord(id) == BookOf(id).t # "unavailable" /\ Truthy(BookOf(id))

\* A book record of the expected shape: a non-empty dict whose authors and
\* works are lists of dicts and whose subjects are lists of str.
ValidBook(b) ==
  /\ b.t = "dict"
  /\ Truthy(b)
  /\ AuthorsOf(b).exc = ""
  /\ \A i \in DOMAIN AuthorsOf(b).seq : AuthorsOf(b).seq[i].t = "dict"
  /\ ~IsRaise(WorkKeyOf(b))
  /\ UpdateTags([exc |-> "", set |-> {}], b, BookTagKeys).exc = ""
  /\ \A x \in UpdateTags([exc |-> "", set |-> {}], b, BookTagKeys).set : x.t = "str"

\* C1 as stated: whenever some identifier of the candidate list resolves to
\* a valid book record, the finished request has returned a result.
C1_ResultWheneverSomeCandidateResolves ==
  \A r \in Req :
    (pc[r] = "done" /\ \E i \in DOMAIN ids[r] : ValidBook(BookOf(ids[r][i])))
      => IsResult(response[r])

\* C1 amended: the finished request has returned a result, after at most 3
\* samples, whenever one of its samples drew an identifier with a book
\* record whose processing raised no error; and it has returned the message
\* when its 3 samples all drew identifiers without a record, whatever else
\* the candidate list holds.
C1_ResultWhenAResolvingCandidateIsSampled ==
  \A r \in Req :
    pc[r] = "done" =>
      /\ Len(samples[r]) <= 3
      /\ (\E i \in DOMAIN samples[r] :
            /\ HasRecord(samples[r][i])
            /\ (i <= Len(outcomes[r]) => outcomes[r][i] # "error"))
           => IsResult(response[r])
      /\ (/\ Len(samples[r]) = 3
          /\ \A i \in DOMAIN samples[r] : BookOf(samples[r][i]).t = "unavailable")
           => response[r] = Message

\* A result that came only with a later sample, the earlier one having drawn
\* an identifier without a record.
C1_Witness ==
  \E r \in Req :
    /\ pc[r] = "done"
    /\ IsResult(response[r])
    /\ Len(samples[r]) >= 2
    /\ BookOf(samples[r][1]).t = "unavailable"

\* C2: when every identifier of the candidate list is without a record, the
\* finished request has returned the message after 3 samples and exactly 3
\* book reads, and has made no author read and no work read.
C2_AllFailGivesMessageAfterThreeReads ==
  \A r \in Req :
    (pc[r] = "done" /\ \A i \in DOMAIN ids[r] : BookOf(ids[r][i]).t = "unavailable")
      => /\ response[r] = Message
         /\ Len(samples[r]) = 3
         /\ nreads[r] = [book |-> 3, author |-> 0, work |-> 0]

C2_Witness ==
  \E r \in Req :
    /\ pc[r] = "done"
    /\ \A i \in DOMAIN ids[r] : BookOf(ids[r][i]).t = "unavailable"
    /\ Len(ids[r]) = 2
    /\ response[r] = Message

\* C3: no request is ever left with a raised exception; a finished request
\* has returned a result or the message, and every failed attempt, whatever
\* failed in it, only took one attempt from the budget.
C3_FailuresNeverRaise ==
  \A r \in Req :
    /\ response[r].t # "raise"
    /\ pc[r] = "done" => response[r].t \in {"result", "message"}
    /\ pc[r] \in {"loop", "done"} => Len(outcomes[r]) = 3 - attempts[r]

\* A request that finished after a read failure and a caught shape failure.
C3_Witness ==
  \E r \in Req :
    /\ pc[r] = "done"
    /\ \E i, j \in DOMAIN outcomes[r] : outcomes[r][i] = "none" /\ outcomes[r][j] = "error"
    /\ \E i \in DOMAIN samples[r] : BookOf(samples[r][i]).t = "unavailable"

\* C4: a returned result belongs to the identifier sampled in the returning
\* attempt, which is one of the candidates, and that attempt's book read was
\* of this identifier and gave a non-empty dict.
C4_ResultOnlyFromABookRecord ==
  \A r \in Req :
    IsResult(response[r]) =>
      /\ response[r].work_id = Last(samples[r])
      /\ \E i \in DOMAIN ids[r] : ids[r][i] = response[r].work_id
      /\ trace[r] # <<>>
      /\ trace[r][1].kind = "book"
      /\ trace[r][1].url = BookRoute(response[r].work_id.s)
      /\ trace[r][1].res.t = "dict"
      /\ Truthy(trace[r][1].res)
      /\ trace[r][1].res = BookOf(response[r].work_id)

\* A result for the second of two different candidates, the first of which
\* has no record.
C4_Witness ==
  \E r \in Req :
    /\ IsResult(response[r])
    /\ Len(ids[r]) = 2
    /\ ids[r][1] # ids[r][2]
    /\ response[r].work_id = ids[r][2]
    /\ BookOf(ids[r][1]).t = "unavailable"

\* C5: a result is returned in the attempt that built it, all attempts
\* before it having failed and the rest of the budget being left unused;
\* once it is returned the request samples nothing and reads nothing more.
C5_FirstSuccessWins ==
  /\ [](\A r \in Req :
          IsResult(response[r]) =>
            /\ pc[r] = "done"
            /\ Len(samples[r]) = Len(outcomes[r]) + 1
            /\ attempts[r] = 3 - Len(outcomes[r])
            /\ attempts[r] >= 1)
  /\ [][\A r \in Req :
          IsResult(response[r]) =>
            /\ response'[r] = response[r]
            /\ samples'[r] = samples[r]
            /\ nreads'[r] = nreads[r]
            /\ trace'[r] = trace[r]]_vars

\* A result returned in the first attempt, with two attempts left.
C5_Witness ==
  \E r \in Req :
    /\ IsResult(response[r])
    /\ attempts[r] = 3
    /\ Len(samples[r]) = 1
    /\ nreads[r].book = 1

\* The reads of one kind made in the current attempt, in order.
ReadsOf(r, kind) == SelectSeq(trace[r], LAMBDA e : e.kind = kind)

\* The references of the book that fetch_author_names reads: those with a key.
KeyedRefs(book) ==
  SelectSeq(AuthorsOf(book).seq, LAMBDA a : a.t = "dict" /\ Truthy(DictGet(a, "key", None)))

\* C6: when fetch_author_names has returned, it has read every reference
\* with a key, in order, and its list holds exactly one entry, the name, for
\* each read that succeeded, in the order of the reads.
C6_OneEntryPerSucceededRead ==
  \A r \in Req :
    (pc[r] \in {"fetch_work", "finish"} \/ IsResult(response[r])) =>
      LET reads == ReadsOf(r, "author")
          ok    == SelectSeq(reads, LAMBDA e : e.res.t # "null")
          refs  == KeyedRefs(trace[r][1].res)
      IN /\ Len(reads) = Len(refs)
         /\ \A i \in DOMAIN reads : reads[i].url = ResourceRoute(refs[i].d["key"].s)
         /\ Len(authors_list[r].l) = Len(ok)
         /\ \A i \in DOMAIN ok : authors_list[r].l[i] = DictGet(ok[i].res, "name", None)

\* The description resolver as the data model words it.
Resolved(d) ==
  CASE d.t = "dict" -> (IF d.d["value"].t = "absent" THEN Str(<<>>) ELSE d.d["value"])
    [] d.t = "str"  -> d
    [] OTHER        -> Str(<<>>)

\* The work record of the current attempt, if one was obtained.
WorkObtained(r) ==
  ReadsOf(r, "work") # <<>> /\ Truthy(ReadsOf(r, "work")[1].res)

\* C7: the returned description is the book's resolved description when
\* that is not empty; else the work's resolved description when a work
\* record was obtained; else the empty string.
C7_DescriptionFallback ==
  \A r \in Req :
    IsResult(response[r]) =>
      LET b == Resolved(trace[r][1].res.d["description"])
      IN response[r].description =
           IF b # Str(<<>>) THEN b
           ELSE IF WorkObtained(r)
             THEN Resolved(ReadsOf(r, "work")[1].res.d["description"])
           ELSE Str(<<>>)

\* The book has no description and the work's {"value": "W"} is returned.
C7_Witness ==
  \E r \in Req :
    /\ IsResult(response[r])
    /\ trace[r][1].res.d["description"] = Dict([value |-> Str(<<>>)])
    /\ WorkObtained(r)
    /\ ReadsOf(r, "work")[1].res.d["description"] = Dict([value |-> Str(<<"W">>)])
    /\ response[r].description = Str(<<"W">>)

ListSet(rec, k) == IF rec.d[k].t = "list" THEN Range(rec.d[k].l) ELSE {}

\* The union that the tags are to be.
ExpectedTags(r) ==
  UNION {ListSet(trace[r][1].res, k) :
           k \in {"subjects", "subject_places", "subject_people", "subject_times"}}
  \cup
  (IF WorkObtained(r)
     THEN UNION {ListSet(ReadsOf(r, "work")[1].res, k) :
                   k \in {"subjects", "subject_places", "subject_people",
                          "subject_times", "genres"}}
     ELSE {})

\* The tags read back from the output: the pieces between the separators.
RECURSIVE Pieces(_, _)
Pieces(s, cur) ==
  IF s = <<>> THEN <<Str(cur)>>
  ELSE IF Head(s) = ", " THEN <<Str(cur)>> \o Pieces(Tail(s), <<>>)
  ELSE Pieces(Tail(s), Append(cur, Head(s)))

TagsIn(out) == IF out = <<>> THEN <<>> ELSE Pieces(out, <<>>)

\* C8 as stated: the tags in the output are exactly the union, each once,
\* and an empty union gives the empty string.
C8_OutputTagsAreTheUnion ==
  \A r \in Req :
    IsResult(response[r]) =>
      /\ Range(TagsIn(response[r].tags.s)) = ExpectedTags(r)
      /\ Len(TagsIn(response[r].tags.s)) = Cardinality(ExpectedTags(r))
      /\ ExpectedTags(r) = {} => response[r].tags = Str(<<>>)

\* C8 amended: the output is the values of the union, each exactly once, in
\* some order, joined by ", "; an empty union gives the empty string; and
\* the tags read back from the output are exactly the union, each once, when
\* no value of the union is empty or holds the separator.
C8_OutputIsTheUnionJoined ==
  \A r \in Req :
    IsResult(response[r]) =>
      /\ \E p \in Orderings(ExpectedTags(r)) : response[r].tags = Str(Join(p))
      /\ ExpectedTags(r) = {} => response[r].tags = Str(<<>>)
      /\ (\A x \in ExpectedTags(r) : x.s # <<>> /\ ", " \notin Range(x.s))
           => /\ Range(TagsIn(response[r].tags.s)) = ExpectedTags(r)
              /\ Len(TagsIn(response[r].tags.s)) = Cardinality(ExpectedTags(r))

\* Tags of the book and of the work, one of them in two fields.
C8_Witness ==
  \E r \in Req :
    /\ IsResult(response[r])
    /\ WorkObtained(r)
    /\ ExpectedTags(r) = {TagA, TagB, TagC}
    /\ trace[r][1].res.d["subject_places"] = List(<<TagB>>)
    /\ trace[r][1].res.d["subject_times"] = List(<<TagB>>)

\* C9: the cover image is absent exactly when the book's covers are missing
\* or empty; otherwise it is the cover URL of the sampled identifier; the
\* covers themselves are returned as they came.
C9_CoverFromIdentifier ==
  \A r \in Req :
    IsResult(response[r]) =>
      LET c == trace[r][1].res.d["covers"]
      IN /\ (response[r].cover_image = None) <=> (c.t = "absent" \/ c = List(<<>>))
         /\ response[r].cover_image # None =>
              response[r].cover_image =
                Str(<<"https://covers.openlibrary.org/b/olid/">>
                      \o Last(samples[r]).s \o <<"-L.jpg">>)
         /\ response[r].covers = IF c.t = "absent" THEN List(<<>>) ELSE c

\* Two cover ids, and the image is the one of OL2W.
C9_Witness ==
  \E r \in Req :
    /\ IsResult(response[r])
    /\ response[r].covers = List(<<Num(456), Num(123)>>)
    /\ response[r].work_id = Str(OL2W)
    /\ response[r].cover_image =
         Str(<<"https://covers.openlibrary.org/b/olid/", "OL2W", "-L.jpg">>)

\* Everything that belongs to the invocation r of get_random_book: its
\* parameter, its locals, its position and what it has read and returned.
Own(r) ==
  <<work_ids[r], pc[r], ids[r], attempts[r], work_id[r], book_data[r],
    covers[r], cover_image[r], authors_list[r], author_names[r], author_i[r],
    description[r], work_data[r], tags[r], url[r], response[r], samples[r],
    trace[r], nreads[r], outcomes[r]>>

\* The work record among the reads tr, None when no work was read.
WorkIn(tr) ==
  IF SelectSeq(tr, LAMBDA e : e.kind = "work") = <<>> THEN None
  ELSE SelectSeq(tr, LAMBDA e : e.kind = "work")[1].res

\* The dict that the sample id and the replies tr to its reads determine,
\* with the tags in the order tg.
Aggregate(id, tr, tg) ==
  LET book  == tr[1].res
      ok    == SelectSeq(tr, LAMBDA e : e.kind = "author" /\ Truthy(e.res))
      d1    == parse_description(DictGet(book, "description", None))
      c     == DictGet(book, "covers", List(<<>>))
  IN [t |-> "result",
      work_id |-> id,
      title |-> DictGet(book, "title", None),
      authors |-> List([i \in DOMAIN ok |-> DictGet(ok[i].res, "name", None)]),
      description |-> IF ~Truthy(d1) /\ Truthy(WorkIn(tr))
                        THEN parse_description(DictGet(WorkIn(tr), "description", None))
                        ELSE d1,
      covers |-> c,
      cover_image |-> get_cover_image(id, c),
      tags |-> tg,
      url |-> Str(DetailUrl(id))]

\* The outcome of a finished request is the one its own inputs determine.
OwnOutcome(r) ==
  pc[r] = "done" =>
    /\ ids[r] = PySplit(work_ids[r], <<>>)
    /\ \A i \in DOMAIN samples[r] : samples[r][i] \in Range(ids[r])
    /\ \/ /\ response[r] = Message
          /\ Len(samples[r]) = 3
          /\ Len(outcomes[r]) = 3
       \/ /\ IsResult(response[r])
          /\ trace[r][1].url = BookRoute(Last(samples[r]).s)
          /\ \E tg \in extract_tags(trace[r][1].res, WorkIn(trace[r])) :
               response[r] = Aggregate(Last(samples[r]), trace[r], tg)

\* A step changes what belongs to at most one request, and never the catalog.
OwnFrame ==
  /\ catalog' = catalog
  /\ \A r, s \in Req : r # s => (Own(r)' = Own(r) \/ Own(s)' = Own(s))

\* A step of one request leaves the generator alone when the other request
\* is at line 161, about to read it.
GeneratorFrame ==
  \A r, s \in Req :
    (r # s /\ Own(r)' # Own(r) /\ pc[s] = "loop" /\ attempts[s] > 0) => rng' = rng

\* C10 as stated: each outcome is determined by the request's own inputs,
\* and no step of one request changes anything the other request reads.
C10_NothingShared ==
  /\ [](\A r \in Req : OwnOutcome(r))
  /\ [][OwnFrame /\ GeneratorFrame]_vars

\* C10 amended: each outcome is determined by the request's own candidate
\* list, samples and replies, and no step of one request changes a variable
\* of the other or the catalog; the generator of random.choice is left out,
\* being read and advanced by every sample of either request.
C10_NothingSharedButTheGenerator ==
  /\ [](\A r \in Req : OwnOutcome(r))
  /\ [][OwnFrame]_vars

\* Request 1 has returned a result while request 2, which has already spent
\* an attempt, is in the middle of its next one.
C10_Witness ==
  /\ pc[1] = "done"
  /\ IsResult(response[1])
  /\ pc[2] \in {"authors", "fetch_work", "finish"}
  /\ Len(outcomes[2]) >= 1

\* C11: an attempt that ends without a result, be it for want of a book
\* record or for a caught error, takes exactly one from the budget, and the
\* budget changes in no other way; at every loop head the book reads made so
\* far and the budget left add up to 3; the budget is never negative.
C11_BudgetDecrementsByOne ==
  /\ [](\A r \in Req :
          /\ attempts[r] >= 0
          /\ pc[r] = "loop" => nreads[r].book + attempts[r] = 3)
  /\ [][\A r \in Req :
          /\ (pc[r] \in {"if_book", "except"} /\ pc'[r] = "loop") =>
                /\ attempts'[r] = attempts[r] - 1
                /\ outcomes'[r] =
                     Append(outcomes[r], IF pc[r] = "except" THEN "error" ELSE "none")
          /\ (pc[r] # "start" /\ attempts'[r] # attempts[r]) =>
                /\ pc[r] \in {"if_book", "except"}
                /\ pc'[r] = "loop"
          /\ (pc[r] # "start" /\ pc'[r] = "loop") => ~IsResult(response'[r])]_vars

\* The loop head with one attempt left, after an attempt that found no book
\* record and an attempt that ended in a caught error.
C11_Witness ==
  \E r \in Req :
    /\ pc[r] = "loop"
    /\ attempts[r] = 1
    /\ outcomes[r] = <<"none", "error">>
    /\ nreads[r].book = 2

\* C12: every request that has arrived finishes in the end; it has then
\* made at least one and at most 3 attempts, and either the last of them
\* returned a result, every one before it having failed, or all 3 failed
\* and the message was returned with nothing left of the budget.
C12_EveryRequestFinishes ==
  /\ <>(\A r \in Req : pc[r] \in {"off", "done"})
  /\ [](\A r \in Req :
          /\ Len(samples[r]) <= 3
          /\ pc[r] = "done" =>
               /\ Len(samples[r]) >= 1
               /\ \/ /\ IsResult(response[r])
                     /\ Len(outcomes[r]) = Len(samples[r]) - 1
                     /\ attempts[r] = 3 - Len(outcomes[r])
                  \/ /\ response[r] = Message
                     /\ Len(samples[r]) = 3
                     /\ Len(outcomes[r]) = 3
                     /\ attempts[r] = 0)

\* A request that finished with the message after three caught errors, each
\* in an attempt that had read the book and an author or a work.
C12_Witness ==
  \E r \in Req :
    /\ pc[r] = "done"
    /\ response[r] = Message
    /\ outcomes[r] = <<"error", "error", "error">>
    /\ nreads[r].book = 3
    /\ nreads[r].author + nreads[r].work >= 3

\* The number of remote reads the request has made.
TotalReads(n) == n.book + n.author + n.work

\* C13: the reads of one attempt are the book read, of the sampled
\* identifier, first and once; then, only when it gave a book record, the
\* author reads, following the references of the authors field in their
\* order; then at most one work read, made after every author read and for
\* the first entry of works.  An attempt whose book read failed holds that
\* read alone.  Every read the request makes is one of these.
C13_ReadsInFixedOrder ==
  /\ [](\A r \in Req :
          trace[r] # <<>> =>
            LET tr      == trace[r]
                book    == tr[1].res
                refs    == KeyedRefs(book)
                authors == ReadsOf(r, "author")
                works   == ReadsOf(r, "work")
            IN /\ tr[1].kind = "book"
               /\ tr[1].url = BookRoute(Last(samples[r]).s)
               /\ \A i \in DOMAIN tr : tr[i].kind = "book" => i = 1
               /\ \A i \in DOMAIN tr : tr[i].kind = "work" => i = Len(tr)
               /\ ~Truthy(book) => Len(tr) = 1
               /\ Len(authors) <= Len(refs)
               /\ \A i \in DOMAIN authors :
                    authors[i].url = ResourceRoute(refs[i].d["key"].s)
               /\ works # <<>> =>
                    /\ Len(authors) = Len(refs)
                    /\ works[1].url = ResourceRoute(book.d["works"].l[1].d["key"].s))
  /\ [][\A r \in Req :
          IF pc[r] = "loop"
            THEN nreads'[r] = nreads[r]
            ELSE /\ TotalReads(nreads'[r]) - TotalReads(nreads[r])
                      = Len(trace'[r]) - Len(trace[r])
                 /\ TotalReads(nreads'[r]) - TotalReads(nreads[r]) \in {0, 1}]_vars

\* An attempt on a book with three authors and two work references: five
\* reads, the last of them of the first work.
C13_Witness ==
  \E r \in Req :
    /\ Len(trace[r]) = 5
    /\ trace[r][5].kind = "work"
    /\ trace[r][5].url = ResourceRoute(W1)
    /\ Len(trace[r][1].res.d["works"].l) = 2
    /\ Len(ReadsOf(r, "author")) = 3

\* The attempt has no work record: no work read was made (the book names no
\* work, or its first work reference has no key) or the work read failed.
NoWork(r) == ReadsOf(r, "work") = <<>> \/ ReadsOf(r, "work")[1].res = None

\* Every author read of the attempt gave a record or failed.
AuthorRepliesFine(r) ==
  \A i \in DOMAIN ReadsOf(r, "author") : ReadsOf(r, "author")[i].res.t \in {"dict", "null"}

\* The tags of the book alone, joined in any order.
BookTagsJoined(book) ==
  {Str(Join(p)) :
     p \in Orderings(UNION {ListSet(book, k) :
                              k \in {"subjects", "subject_places", "subject_people",
                                     "subject_times"}})}

\* C14: an attempt on a book record that is left without a work record,
\* the book naming no work, the reference having no key or the work read
\* failing, does not fail for it: when it ended in a caught error, the book
\* record or an author reply was malformed; when it gets to the tags of a
\* well-formed book it returns a result and the budget is left as it was;
\* and the result's description is the one resolved from the book and its
\* tags are those of the book alone.
C14_WorkReadIsBestEffort ==
  /\ [](\A r \in Req :
          /\ (/\ pc[r] = "loop"
              /\ outcomes[r] # <<>>
              /\ Last(outcomes[r]) = "error"
              /\ NoWork(r))
               => ~(ValidBook(trace[r][1].res) /\ AuthorRepliesFine(r))
          /\ (pc[r] = "finish" /\ NoWork(r)) => work_data[r] = None
          /\ (IsResult(response[r]) /\ NoWork(r)) =>
               /\ response[r].description = Resolved(trace[r][1].res.d["description"])
               /\ response[r].tags \in BookTagsJoined(trace[r][1].res))
  /\ [][\A r \in Req :
          (/\ pc[r] = "finish"
           /\ NoWork(r)
           /\ ValidBook(trace[r][1].res)
           /\ pc'[r] # "finish")
            => /\ pc'[r] = "done"
               /\ IsResult(response'[r])
               /\ attempts'[r] = attempts[r]
               /\ outcomes'[r] = outcomes[r]]_vars

\* A result of the first attempt, with tags, although the work read failed.
C14_Witness ==
  \E r \in Req :
    /\ IsResult(response[r])
    /\ ReadsOf(r, "work") # <<>>
    /\ ReadsOf(r, "work")[1].res = None
    /\ response[r].tags # Str(<<>>)
    /\ attempts[r] = 3

\* C15: the candidate list is the one the parameter named and no attempt
\* changes it; each sample is random.choice over the whole of it, so every
\* candidate, one that failed before included, is the choice of some state
\* of the generator at every attempt.
C15_SamplingWithReplacement ==
  /\ [](\A r \in Req :
          pc[r] \notin {"off", "start"} =>
            /\ \E l \in CandidateLists :
                 /\ work_ids[r] = JoinComma(l)
                 /\ ids[r] = [i \in DOMAIN l |-> Str(l[i])]
            /\ \A i \in DOMAIN samples[r] : samples[r][i] \in Range(ids[r])
            /\ \A i \in DOMAIN ids[r] :
                 \E g \in 0..(RngStates - 1) : RandomChoice(ids[r], g) = ids[r][i])
  /\ [][\A r \in Req :
          /\ pc[r] # "start" => ids'[r] = ids[r]
          /\ (pc[r] = "loop" /\ pc'[r] = "fetch_book") =>
               /\ work_id'[r] = RandomChoice(ids[r], rng)
               /\ samples'[r] = Append(samples[r], work_id'[r])]_vars

\* Of two different candidates the first was sampled, failed, and was
\* sampled again in the next attempt.
C15_Witness ==
  \E r \in Req :
    /\ Len(ids[r]) = 2
    /\ ids[r][1] # ids[r][2]
    /\ Len(samples[r]) >= 2
    /\ samples[r][1] = ids[r][1]
    /\ samples[r][2] = ids[r][1]
    /\ outcomes[r] # <<>>
    /\ outcomes[r][1] = "none"

\* C16: in a returned result, work_id is the identifier sampled in the
\* returning attempt and url and cover_image are made from it; the book
\* read of that attempt was of this identifier; title and covers are those
\* of the record it gave, authors the names of the records its author reads
\* gave, description and tags those of its book and work records; and every
\* local of the handler holds the value of this attempt.
C16_ResultFromReturningAttemptOnly ==
  \A r \in Req :
    IsResult(response[r]) =>
      LET id   == Last(samples[r])
          book == trace[r][1].res
          ok   == SelectSeq(ReadsOf(r, "author"), LAMBDA e : Truthy(e.res))
          b    == Resolved(book.d["description"])
      IN /\ trace[r][1].url = BookRoute(id.s)
         /\ book = BookOf(id)
         /\ response[r].work_id = id
         /\ response[r].url = Str(<<"https://openlibrary.org/works/">> \o id.s)
         /\ response[r].cover_image =
              IF book.d["covers"].t = "list" /\ book.d["covers"].l # <<>>
                THEN Str(<<"https://covers.openlibrary.org/b/olid/">> \o id.s \o <<"-L.jpg">>)
                ELSE None
         /\ response[r].title =
              IF book.d["title"].t = "absent" THEN None ELSE book.d["title"]
         /\ response[r].covers =
              IF book.d["covers"].t = "absent" THEN List(<<>>) ELSE book.d["covers"]
         /\ response[r].authors =
              List([i \in DOMAIN ok |->
                      IF ok[i].res.d["name"].t = "absent" THEN None ELSE ok[i].res.d["name"]])
         /\ response[r].description =
              IF b # Str(<<>>) THEN b
              ELSE IF WorkObtained(r)
                THEN Resolved(ReadsOf(r, "work")[1].res.d["description"])
              ELSE Str(<<>>)
         /\ \E p \in Orderings(ExpectedTags(r)) : response[r].tags = Str(Join(p))
         /\ work_id[r] = id
         /\ book_data[r] = book
         /\ work_data[r] = WorkIn(trace[r])
         /\ covers[r] = response[r].covers
         /\ cover_image[r] = response[r].cover_image
         /\ authors_list[r] = response[r].authors
         /\ description[r] = response[r].description
         /\ tags[r] = response[r].tags
         /\ url[r] = response[r].url

\* A result without cover image for one identifier, after an attempt on
\* another identifier that made a cover image and then ended in a caught
\* error.
C16_Witness ==
  \E r \in Req :
    /\ IsResult(response[r])
    /\ Len(samples[r]) >= 2
    /\ samples[r][1] # Last(samples[r])
    /\ outcomes[r][1] = "error"
    /\ BookOf(samples[r][1]).t = "dict"
    /\ BookOf(samples[r][1]).d["covers"] = List(<<Num(1)>>)
    /\ response[r].cover_image = None

\* The number of commas of a parameter.
Commas(s) == Cardinality({i \in DOMAIN s : s[i] = ","})

\* C17: for every parameter, the empty one included, the candidate list
\* has one token more than the parameter has commas, so at least one; no
\* sample raises; every sample is a token of the list; and every attempt
\* makes exactly one book read.
C17_CandidateListNeverEmpty ==
  \A r \in Req :
    /\ response[r].t # "raise"
    /\ pc[r] \notin {"off", "start"} =>
         /\ Len(ids[r]) = Commas(work_ids[r]) + 1
         /\ Len(ids[r]) >= 1
         /\ work_ids[r] = <<>> => ids[r] = <<Str(<<>>)>>
         /\ \A i \in DOMAIN samples[r] : samples[r][i] \in Range(ids[r])
         /\ nreads[r].book = IF pc[r] = "fetch_book" THEN Len(samples[r]) - 1
                                                    ELSE Len(samples[r])

\* The request with the empty parameter has finished: its one candidate is
\* the empty token, sampled and read three times.
C17_Witness ==
  \E r \in Req :
    /\ pc[r] = "done"
    /\ work_ids[r] = <<>>
    /\ samples[r] = <<Str(<<>>), Str(<<>>), Str(<<>>)>>
    /\ nreads[r].book = 3
    /\ response[r] = Message

====
